---- MODULE Spec2Model ----
(***************************************************************************)
(* A model of app.py: the Streamlit delivery-quote form.  Every user       *)
(* interaction re-runs the script top to bottom; one action of Spec is one *)
(* such run.  SpecParse applies parse_coords_from_text to bounded texts,   *)
(* SpecSign applies _build_signature to pairs of bodies.                   *)
(***************************************************************************)
EXTENDS Integers, Sequences, FiniteSets, TLC

VARIABLES
    api_key,            \* LALAMOVE_API_KEY (fixed at start-up)
    api_secret,         \* LALAMOVE_API_SECRET (fixed at start-up)
    search_method,      \* the st.radio of section 1
    search_address,     \* the st.text_input of the address mode
    manual_coords,      \* the st.text_input of the manual mode
    service_type,       \* the st.selectbox of section 2
    selected_location,  \* st.session_state.selected_location, NotInSession if absent
    event,              \* what triggered the last script run, and the input it carried
    shown,              \* what the last script run displayed
    uncaught,           \* the last script run ended in an uncaught exception
    geo_http,           \* the geocoding requests sent by the last script run
    quote_http,         \* the quotation requests sent by the last script run
    quote_call,         \* the outcome of lalamove_request in the last script run
    text,               \* SpecParse: the input text
    chunks,             \* SpecParse: the number of chunks the text is made of
    parsed,             \* SpecParse: the value parse_coords_from_text returned
    sign_in,            \* SpecSign: secret, method, timestamp and the two bodies
    sign_out            \* SpecSign: the two signatures, and the two payloads signed

vars == <<api_key, api_secret, search_method, search_address, manual_coords,
          service_type, selected_location, event, shown, uncaught, geo_http,
          quote_http, quote_call, text, chunks, parsed, sign_in, sign_out>>

uiVars == <<api_key, api_secret, search_method, search_address, manual_coords,
            service_type, selected_location, event, shown, uncaught, geo_http,
            quote_http, quote_call>>

\* ------------------------------------------------------------------ bounds

\* SpecParse builds its texts from at most MaxChunks chunks.
MaxChunks == 4

\* ------------------------------------------------------------------ floats

\* A Python float, kept exactly: (-1)^neg * num / 10^exp, with num not a
\* multiple of 10 unless exp = 0.  -0.0 keeps its sign, as in Python.
Float(neg, num, exp) == [neg |-> neg, num |-> num, exp |-> exp]

RECURSIVE Pow10(_)
Pow10(n) == IF n = 0 THEN 1 ELSE 10 * Pow10(n - 1)

RECURSIVE Normalise(_)
Normalise(f) ==
    IF f.exp > 0 /\ f.num % 10 = 0
    THEN Normalise(Float(f.neg, f.num \div 10, f.exp - 1))
    ELSE f

\* bool(f): a float is falsy exactly when it is zero (0.0 and -0.0).
Truthy(f) == f.num # 0

\* lo <= f <= hi for integers lo <= 0 <= hi.
InRange(f, lo, hi) ==
    IF f.neg THEN f.num <= (0 - lo) * Pow10(f.exp)
             ELSE f.num <= hi * Pow10(f.exp)

\* s[i - 1] of a str: its i-th character
Ch(s, i) == SubSeq(s, i, i)

DigitChars == "0123456789"

\* \d of the pattern
IsDigit(c) == c \in {"0", "1", "2", "3", "4", "5", "6", "7", "8", "9"}

\* \s of the pattern
IsSpace(c) == c \in {" ", "\t"}

DigitVal(c) == (CHOOSE d \in 1..10 : Ch(DigitChars, d) = c) - 1

RECURSIVE DigitsVal(_)
DigitsVal(ds) ==
    IF ds = "" THEN 0
    ELSE 10 * DigitsVal(SubSeq(ds, 1, Len(ds) - 1)) + DigitVal(Ch(ds, Len(ds)))

\* float(s) for s matching -?\d+\.\d+
float(s) ==
    LET neg  == Ch(s, 1) = "-"
        body == IF neg THEN SubSeq(s, 2, Len(s)) ELSE s
        dot  == CHOOSE i \in 1..Len(body) : Ch(body, i) = "."
        int  == SubSeq(body, 1, dot - 1)
        frac == SubSeq(body, dot + 1, Len(body))
    IN  Normalise(Float(neg, DigitsVal(int \o frac), Len(frac)))

RECURSIVE ZeroPad(_, _)
ZeroPad(s, width) == IF Len(s) >= width THEN s ELSE ZeroPad("0" \o s, width)

\* str(f) of a float (repr: shortest decimal, at least one fractional digit)
str(f) ==
    LET p == Pow10(f.exp)
    IN  (IF f.neg THEN "-" ELSE "")
        \o ToString(f.num \div p) \o "."
        \o (IF f.exp = 0 THEN "0" ELSE ZeroPad(ToString(f.num % p), f.exp))

\* ------------------------------------------------------------------ parse_coords_from_text

\* The first index >= i of s that holds no digit (Len(s) + 1 if none): \d* is greedy.
RECURSIVE DigitsEnd(_, _)
DigitsEnd(s, i) ==
    IF i <= Len(s) /\ IsDigit(Ch(s, i)) THEN DigitsEnd(s, i + 1) ELSE i

\* The first index >= i of s that holds no whitespace: \s* is greedy.
RECURSIVE SpacesEnd(_, _)
SpacesEnd(s, i) ==
    IF i <= Len(s) /\ IsSpace(Ch(s, i)) THEN SpacesEnd(s, i + 1) ELSE i

\* -?\d+\.\d+ matched at i: the index after the match, 0 if it does not match.
\* Giving a digit back never helps (the next pattern item is not a digit), so the
\* greedy match is the only one the backtracking can succeed with.
MatchNumber(s, i) ==
    LET d1 == IF i <= Len(s) /\ Ch(s, i) = "-" THEN i + 1 ELSE i
        e1 == DigitsEnd(s, d1)
        e2 == DigitsEnd(s, e1 + 1)
    IN  IF e1 > d1 /\ e1 <= Len(s) /\ Ch(s, e1) = "." /\ e2 > e1 + 1 THEN e2 ELSE 0

NoMatch == [ok |-> FALSE, g1 |-> "", g2 |-> ""]

\* The whole pattern (-?\d+\.\d+)\s*,\s*(-?\d+\.\d+) matched at i.
MatchAt(s, i) ==
    LET e1 == MatchNumber(s, i)
        c  == SpacesEnd(s, e1)
        b2 == SpacesEnd(s, c + 1)
        e2 == MatchNumber(s, b2)
    IN  IF e1 # 0 /\ c <= Len(s) /\ Ch(s, c) = "," /\ e2 # 0
        THEN [ok |-> TRUE, g1 |-> SubSeq(s, i, e1 - 1), g2 |-> SubSeq(s, b2, e2 - 1)]
        ELSE NoMatch

\* The scan of re.search from position i on: the first position that matches.
RECURSIVE ScanFrom(_, _)
ScanFrom(s, i) ==
    IF i > Len(s) THEN NoMatch
    ELSE LET m == MatchAt(s, i)
         IN  IF m.ok THEN m ELSE ScanFrom(s, i + 1)

\* A scan from position i down: the last position that matches.
RECURSIVE ScanBack(_, _)
ScanBack(s, i) ==
    IF i < 1 THEN NoMatch
    ELSE LET m == MatchAt(s, i)
         IN  IF m.ok THEN m ELSE ScanBack(s, i - 1)

\* A search that takes the last position the pattern matches at, not the first.
re_search_last(s) == ScanBack(s, Len(s))

\* re.search: the match at the leftmost position the pattern matches at.
re_search(s) == ScanFrom(s, 1)

NoCoords == [found |-> FALSE, lat |-> Float(FALSE, 0, 0), lng |-> Float(FALSE, 0, 0)]

\* (None, None) is NoCoords; (lat, lng) has found = TRUE.
parse_coords_from_text(s) ==
    IF s = "" THEN NoCoords
    ELSE LET m == re_search(s)
         IN  IF m.ok THEN [found |-> TRUE, lat |-> float(m.g1), lng |-> float(m.g2)]
             ELSE NoCoords

\* ------------------------------------------------------------------ configuration

KEY_PLACEHOLDER == "YOUR_API_KEY_HERE"
SECRET_PLACEHOLDER == "YOUR_API_SECRET_HERE"
LALAMOVE_COUNTRY == "TH"
LALAMOVE_MARKET == "TH-BKK"
LALAMOVE_BASE_URL == "https://rest.sandbox.lalamove.com"

\* The shop's address (an ASCII stand-in for the Thai text) and position.
SHOP_ADDR == "Thoet Thai 77, Bangkok"
SHOP_LAT == Float(FALSE, 13709679, 6)
SHOP_LNG == Float(FALSE, 100441462, 6)

\* What st.secrets can hold: the placeholder default, or a configured value.
ApiKeys == {KEY_PLACEHOLDER, "pk_test_1"}
ApiSecrets == {SECRET_PLACEHOLDER, "sk_test_1"}

\* ------------------------------------------------------------------ Python values and json.dumps

\* None, a str, a list and a dict (its items in insertion order, as [k, val]).
PyNone == [t |-> "none", s |-> "", items |-> <<>>]
PyStr(s) == [t |-> "str", s |-> s, items |-> <<>>]
PyList(xs) == [t |-> "list", s |-> "", items |-> xs]
PyDict(kvs) == [t |-> "dict", s |-> "", items |-> kvs]
KV(k, v) == [k |-> k, val |-> v]

\* bool(v): None, "", [] and {} are falsy.
PyTruthy(v) ==
    CASE v.t = "none" -> FALSE
      [] v.t = "str"  -> v.s # ""
      [] OTHER        -> v.items # <<>>

\* json.dumps(v, separators=(item_sep, key_sep)); both calls of the code keep
\* the default ensure_ascii, so strings are written the same way by both.
RECURSIVE dumps(_, _, _)
RECURSIVE dumps_items(_, _, _, _)
dumps_items(dict, xs, item_sep, key_sep) ==
    IF xs = <<>> THEN ""
    ELSE LET one == IF dict
                    THEN "\"" \o xs[1].k \o "\"" \o key_sep
                         \o dumps(xs[1].val, item_sep, key_sep)
                    ELSE dumps(xs[1], item_sep, key_sep)
         IN  IF Len(xs) = 1 THEN one
             ELSE one \o item_sep \o dumps_items(dict, Tail(xs), item_sep, key_sep)

dumps(v, item_sep, key_sep) ==
    CASE v.t = "none" -> "null"
      [] v.t = "str"  -> "\"" \o v.s \o "\""
      [] v.t = "list" -> "[" \o dumps_items(FALSE, v.items, item_sep, key_sep) \o "]"
      [] v.t = "dict" -> "{" \o dumps_items(TRUE, v.items, item_sep, key_sep) \o "}"

\* ------------------------------------------------------------------ _build_signature, _headers

LowerCase == "abcdefghijklmnopqrstuvwxyz"
UpperCase == "ABCDEFGHIJKLMNOPQRSTUVWXYZ"

\* str.upper()
RECURSIVE upper(_)
upper(s) ==
    IF s = "" THEN ""
    ELSE LET c == SubSeq(s, 1, 1)
             at == {i \in 1..26 : SubSeq(LowerCase, i, i) = c}
         IN  (IF at = {} THEN c
              ELSE LET i == CHOOSE i \in at : TRUE IN SubSeq(UpperCase, i, i))
             \o upper(SubSeq(s, 2, Len(s)))

\* The first index >= i of s that holds a character of cs, Len(s) + 1 if none.
RECURSIVE FindChar(_, _, _)
FindChar(s, cs, i) ==
    IF i > Len(s) \/ Ch(s, i) \in cs THEN i ELSE FindChar(s, cs, i + 1)

\* urlparse(url).path for a url "scheme://netloc/path?query#fragment": what
\* lies between the netloc and the query or fragment.
urlparse_path(url) ==
    LET colon == FindChar(url, {":"}, 1)
        p     == FindChar(url, {"/", "?", "#"}, colon + 3)
        e     == FindChar(url, {"?", "#"}, p)
    IN  SubSeq(url, p, e - 1)

\* hmac.new(key, msg, sha256).hexdigest(), taken as collision-free: the digest
\* stands for exactly the key and the message it was computed from.
hmac_sha256(key, msg) == [key |-> key, msg |-> msg]

\* the payload _build_signature signs
signed_payload(body) == IF PyTruthy(body) THEN dumps(body, ",", ":") ELSE ""

\* A signature computed without the payload.
_build_signature_no_body(secret, method, url, body, ts_ms) ==
    hmac_sha256(secret, ts_ms \o "\r\n" \o upper(method) \o "\r\n"
                        \o urlparse_path(url) \o "\r\n\r\n")

_build_signature(secret, method, url, body, ts_ms) ==
    LET path    == urlparse_path(url)
        payload == signed_payload(body)
        to_sign == ts_ms \o "\r\n" \o upper(method) \o "\r\n" \o path
                   \o "\r\n\r\n" \o payload
    IN  hmac_sha256(secret, to_sign)

\* _now_ms() returns the clock; the values it can return during one run.
Timestamps == {"1700000000000", "1700000000001"}

\* _headers, with ts the value its one call of _now_ms() returned.
_headers(method, url, body, ts) ==
    LET sig == _build_signature(api_secret, method, url, body, ts)
    IN  [ContentType   |-> "application/json; charset=UTF-8",
         Accept        |-> "application/json",
         XRequestID    |-> "uuid4",
         XLLMCountry   |-> LALAMOVE_COUNTRY,
         XLLMMarket    |-> LALAMOVE_MARKET,
         Authorization |-> [scheme |-> "hmac", key |-> api_key, ts |-> ts, sig |-> sig]]

\* ------------------------------------------------------------------ geocode_address_nominatim

\* One item of the service's JSON array: the keys it has, and their values.
GeoItem(keys, lat, lon, display_name, name) ==
    [keys |-> keys, lat |-> lat, lon |-> lon, display_name |-> display_name,
     name |-> name]

SiamItem ==
    GeoItem({"lat", "lon", "display_name", "name"}, "13.746", "100.534",
            "Siam Paragon, Pathum Wan, Bangkok", "Siam Paragon")
MbkItem ==
    GeoItem({"lat", "lon", "display_name"}, "13.744", "100.53", "MBK Center, Bangkok", "")
NoLonItem == GeoItem({"lat", "display_name"}, "13.7", "", "Nowhere", "")
BadLatItem == GeoItem({"lat", "lon", "display_name"}, "n/a", "100.5", "Nowhere", "")

\* The JSON arrays the geocoding service answers with in the model.
GeoLists ==
    {<<>>, <<SiamItem>>, <<MbkItem, SiamItem>>, <<NoLonItem>>, <<SiamItem, BadLatItem>>}

\* A response of requests: the call raised (no connection, timeout), or an HTTP
\* response with a status and a body that is JSON of some shape, or is not JSON.
NetworkError == [kind |-> "exception", status |-> 0, body |-> [shape |-> "none", data |-> "", items |-> <<>>]]
Http(status, body) == [kind |-> "http", status |-> status, body |-> body]
NotJson == [shape |-> "invalid", data |-> "", items |-> <<>>]

JsonObject == [shape |-> "object", data |-> "", items |-> <<>>]
JsonList(l) == [shape |-> "list", data |-> "", items |-> l]

GeoStatuses == {200, 304, 500}

GeoResponses ==
    {NetworkError}
    \cup {Http(st, b) : st \in GeoStatuses,
                        b \in {NotJson, JsonObject} \cup {JsonList(l) : l \in GeoLists}}

\* Response.raise_for_status() raises for 4xx and 5xx only.
raises_for_status(status) == 400 <= status /\ status < 600

\* Response.ok: raise_for_status() does not raise.
ok(status) == ~raises_for_status(status)

\* float(x) of a JSON string, for the strings of the model: a decimal converts,
\* anything else raises ValueError.
IsDecimal(s) == s # "" /\ MatchNumber(s, 1) = Len(s) + 1

\* The body of the for loop raises for this item (KeyError, ValueError).
ItemRaises(item) ==
    \/ "lat" \notin item.keys
    \/ ~IsDecimal(item.lat)
    \/ "lon" \notin item.keys
    \/ ~IsDecimal(item.lon)
    \/ "display_name" \notin item.keys

GeoResult(item) ==
    [lat |-> float(item.lat), lng |-> float(item.lon), address |-> item.display_name,
     name |-> IF "name" \in item.keys THEN item.name ELSE ""]

GeoFailure(error) == [success |-> FALSE, results |-> <<>>, error |-> error]

\* geocode_address_nominatim(address), resp being what requests.get answered.
\* Every exception raised in its try block is caught and returned as a failure.
geocode_address_nominatim(address, resp) ==
    IF resp.kind = "exception" THEN GeoFailure("exception")              \* requests.get raised
    ELSE IF raises_for_status(resp.status) THEN GeoFailure("exception")  \* HTTPError
    ELSE IF resp.body.shape = "invalid" THEN GeoFailure("exception")     \* response.json() raised
    ELSE IF resp.body.shape = "object" THEN GeoFailure("exception")      \* item is a key: TypeError
    ELSE IF Len(resp.body.items) > 0
         THEN IF \E i \in 1..Len(resp.body.items) : ItemRaises(resp.body.items[i])
              THEN GeoFailure("exception")
              ELSE [success |-> TRUE, error |-> "",
                    results |-> [i \in 1..Len(resp.body.items) |->
                                    GeoResult(resp.body.items[i])]]
         ELSE GeoFailure("not found")

\* ------------------------------------------------------------------ lalamove_request

\* The JSON documents the quotation endpoint can answer with.
QuoteDocs == {"quotation", "error_object", "empty_object", "number"}

Json(d) == [shape |-> "json", data |-> d, items |-> <<>>]

\* The answers of the quotation endpoint in the model: no answer, or one of
\* these statuses with a body that is one of the documents or is not JSON.
QuoteStatuses == {200, 304, 500}

QuoteResponses ==
    {NetworkError}
    \cup {Http(st, b) : st \in QuoteStatuses, b \in {NotJson} \cup {Json(d) : d \in QuoteDocs}}

Returned(value) ==
    [kind |-> "return", value |-> value,
     err |-> [type |-> "", has_status |-> FALSE, status |-> 0, body |-> NotJson]]

Raised(type, has_status, status, body) ==
    [kind |-> "raise", value |-> "None",
     err |-> [type |-> type, has_status |-> has_status, status |-> status, body |-> body]]

\* What lalamove_request does with the response; "None" is Python's None.
handle_response(resp) ==
    IF resp.kind = "exception"
    THEN Raised("RequestException", FALSE, 0, NotJson)      \* requests.request raised
    ELSE IF resp.body.shape = "invalid"                     \* resp.json() raised
         THEN IF raises_for_status(resp.status)
              THEN Raised("HTTPError", TRUE, resp.status, resp.body)
              ELSE Returned("None")
         ELSE IF ~ok(resp.status)
              THEN Raised("RuntimeError", TRUE, resp.status, resp.body)
              ELSE Returned(resp.body.data)

\* the data argument of requests.request: None (nothing sent) for a falsy body
sent_data(body) ==
    IF PyTruthy(body) THEN [sent |-> TRUE, text |-> dumps(body, ", ", ": ")]
    ELSE [sent |-> FALSE, text |-> ""]

\* lalamove_request(method, path, body): the request it sends and how it ends.
lalamove_request(method, path, body, ts, resp) ==
    LET url == LALAMOVE_BASE_URL \o path
    IN  [request |-> [method |-> method, url |-> url, body |-> body,
                      headers |-> _headers(method, url, body, ts),
                      data |-> sent_data(body)],
         outcome |-> handle_response(resp)]

\* str[:100]
Slice100(s) == IF Len(s) <= 100 THEN s ELSE SubSeq(s, 1, 100)

Stop(lat, lng, display) ==
    PyDict(<<KV("location", PyDict(<<KV("lat", PyStr(lat)), KV("lng", PyStr(lng))>>)),
             KV("addresses",
                PyDict(<<KV("th_TH", PyDict(<<KV("displayString", PyStr(display)),
                                              KV("country", PyStr("TH"))>>))>>))>>)

\* the stops the quotation handler prepares for a stored location
Stops(location) ==
    PyList(<<Stop(str(SHOP_LAT), str(SHOP_LNG), SHOP_ADDR),
             Stop(str(location.lat), str(location.lng), Slice100(location.address))>>)

lalamove_get_quotation(stops, type, ts, resp) ==
    LET payload == PyDict(<<KV("serviceType", PyStr(type)), KV("stops", stops)>>)
    IN  lalamove_request("POST", "/v3/quotations", payload, ts, resp)

\* ------------------------------------------------------------------ the script

Location(lat, lng, address) ==
    [present |-> TRUE, lat |-> lat, lng |-> lng, address |-> address]

\* "selected_location" not in st.session_state
NotInSession ==
    [present |-> FALSE, lat |-> Float(FALSE, 0, 0), lng |-> Float(FALSE, 0, 0),
     address |-> ""]

NoResponse == [kind |-> "none", status |-> 0, body |-> [shape |-> "none", data |-> "", items |-> <<>>]]

NoCall ==
    [kind |-> "none", value |-> "None",
     err |-> [type |-> "", has_status |-> FALSE, status |-> 0, body |-> NotJson]]

SearchMethods == {"address", "manual"}
ServiceTypes == {"MOTORCYCLE", "CAR", "VAN", "TRUCK"}

\* The types the user of the model selects.
ChosenTypes == {"MOTORCYCLE", "VAN"}

\* What the user types into the address field.
Queries == {"", "ab", "MBK", "Siam"}

\* What the user types into the coordinate field.
ManualInputs ==
    {"", "13.75,100.50", "0.0, 100.5", "95.5,200.5", "13,100", "maps/@13.7,100.5,15z"}

\* line 165 with the length test dropped
search_button_rendered_any(address) == address # ""

\* line 165: the search button exists for a query of more than 3 characters
search_button_rendered(address) == address # "" /\ Len(address) > 3

\* lines 171-210 storing only the coordinates of the selected result when a
\* destination is already stored
show_geocode_result_partial(geocode_result, address, location) ==
    IF geocode_result.success
    THEN [location |-> IF location.present
                       THEN [location EXCEPT !.lat = geocode_result.results[1].lat,
                                             !.lng = geocode_result.results[1].lng]
                       ELSE Location(geocode_result.results[1].lat,
                                     geocode_result.results[1].lng,
                                     geocode_result.results[1].address),
          shown |-> "results", http |-> <<[q |-> address]>>, uncaught |-> FALSE]
    ELSE [location |-> location, shown |-> "error", http |-> <<[q |-> address]>>,
          uncaught |-> FALSE]

\* What the click handler does with geocode_result (lines 171-210).  The
\* st.radio of the results is new in the run of the click and returns its first
\* option.
show_geocode_result(geocode_result, address, location) ==
    LET selected_result == geocode_result.results[1]
        http == <<[q |-> address]>>
    IN  IF geocode_result.success
        THEN [location |-> Location(selected_result.lat, selected_result.lng,
                                    selected_result.address),
              shown |-> "results", http |-> http, uncaught |-> FALSE]
        ELSE [location |-> location, shown |-> "error", http |-> http,
              uncaught |-> FALSE]

\* Section 1, address mode (lines 158-210).
address_search(address, clicked, resp, location) ==
    IF search_button_rendered(address) /\ clicked
    THEN show_geocode_result(geocode_address_nominatim(address, resp), address, location)
    ELSE [location |-> location, shown |-> "none", http |-> <<>>, uncaught |-> FALSE]

\* the label of a destination entered as coordinates (line 225)
CoordsLabel(lat, lng) == "Coords: " \o str(lat) \o ", " \o str(lng)

\* What the manual mode does with the parser's result p (lines 221-233).
store_parsed_coords(p, location) ==
    IF p.found /\ Truthy(p.lat) /\ Truthy(p.lng)    \* if parsed_lat and parsed_lng
    THEN [location |-> Location(p.lat, p.lng, CoordsLabel(p.lat, p.lng)),
          shown |-> "coords_ok", http |-> <<>>, uncaught |-> FALSE]
    ELSE [location |-> location, shown |-> "coords_error", http |-> <<>>,
          uncaught |-> FALSE]

\* Section 1, manual mode (lines 212-233).
manual_entry(coords, location) ==
    IF coords # ""
    THEN store_parsed_coords(parse_coords_from_text(coords), location)
    ELSE [location |-> location, shown |-> "none", http |-> <<>>, uncaught |-> FALSE]

\* quote_result and "priceBreakdown" in quote_result: raises TypeError for a
\* value that is no container.
PriceTest(value) ==
    CASE value = "None"         -> "false"
      [] value = "empty_object" -> "false"
      [] value = "error_object" -> "false"
      [] value = "quotation"    -> "true"
      [] value = "number"       -> "raises"

\* if quote_result:
ValueTruthy(value) == value \notin {"None", "empty_object"}

QuoteShown(msg, detail) == [msg |-> msg, detail |-> detail]

\* line 254 with "and" for "or"
credentials_missing_both(key, secret) ==
    key = KEY_PLACEHOLDER /\ secret = SECRET_PLACEHOLDER

\* line 254
credentials_missing(key, secret) ==
    key = KEY_PLACEHOLDER \/ secret = SECRET_PLACEHOLDER

\* What the handler shows for the call of lalamove_get_quotation (lines 286-319).
show_quote_result(call, resp) ==
    LET shown_ == IF call.outcome.kind = "raise"
                  THEN QuoteShown("exception", FALSE)            \* except Exception
                  ELSE CASE PriceTest(call.outcome.value) = "true" ->
                                QuoteShown("quote", TRUE)
                         [] PriceTest(call.outcome.value) = "false" ->
                                QuoteShown("quote_failed", ValueTruthy(call.outcome.value))
                         [] OTHER -> QuoteShown("exception", FALSE)  \* TypeError
    IN  [shown |-> shown_, http |-> <<call.request>>, call |-> call.outcome,
         resp |-> resp, uncaught |-> FALSE]

\* The try/except of the quotation handler (lines 259-319).
quotation_try(location, type, ts, resp) ==
    show_quote_result(lalamove_get_quotation(Stops(location), type, ts, resp), resp)

\* Section 2 (lines 243-322).
quotation_section(location, clicked, type, ts, resp) ==
    IF location.present
    THEN IF clicked
         THEN IF credentials_missing(api_key, api_secret)
              THEN [shown |-> QuoteShown("credentials_error", FALSE), http |-> <<>>,
                    call |-> NoCall, resp |-> NoResponse, uncaught |-> FALSE]
              ELSE quotation_try(location, type, ts, resp)
         ELSE [shown |-> QuoteShown("ready", FALSE), http |-> <<>>, call |-> NoCall,
               resp |-> NoResponse, uncaught |-> FALSE]
    ELSE [shown |-> QuoteShown("no_destination", FALSE), http |-> <<>>, call |-> NoCall,
          resp |-> NoResponse, uncaught |-> FALSE]

NoSignature == hmac_sha256("", "")
NoSignIn == [secret |-> "", method |-> "", ts |-> "", body |-> <<PyNone, PyNone>>]
NoSignOut == [done |-> <<FALSE, FALSE>>, sig |-> <<NoSignature, NoSignature>>]

\* What a run leaves behind: s1 is the outcome of section 1, s2 of section 2.
Page(kind, geo, s1, s2) ==
    [location |-> s1.location,
     shown |-> [search |-> s1.shown, quote |-> s2.shown],
     uncaught |-> s2.uncaught,
     geo_http |-> s1.http,
     quote_http |-> s2.http,
     quote_call |-> s2.call,
     event |-> [kind |-> kind,
                geo |-> IF s1.http = <<>> THEN NoResponse ELSE geo,
                quote |-> s2.resp]]

\* Section 2 follows section 1 unless an exception ended the run.
AfterSection1(kind, type, geo, ts, quote, s1) ==
    Page(kind, geo, s1,
         IF s1.uncaught
         THEN [shown |-> QuoteShown("none", FALSE), http |-> <<>>, call |-> NoCall,
               resp |-> NoResponse, uncaught |-> TRUE]
         ELSE quotation_section(s1.location, kind = "click_quote", type, ts, quote))

\* One run of the script: section 1, then section 2.  geo and quote are what the
\* services answer if they are asked.
Script(kind, method, address, coords, type, geo, ts, quote) ==
    AfterSection1(kind, type, geo, ts, quote,
                  IF method = "address"
                  THEN address_search(address, kind = "click_search", geo, selected_location)
                  ELSE manual_entry(coords, selected_location))

\* The widgets take their new values, the script runs, the page shows its output.
Run(kind, method, address, coords, type, geo, ts, quote) ==
    \E out \in {Script(kind, method, address, coords, type, geo, ts, quote)} :
        /\ search_method' = method
        /\ search_address' = address
        /\ manual_coords' = coords
        /\ service_type' = type
        /\ selected_location' = out.location
        /\ shown' = out.shown
        /\ uncaught' = out.uncaught
        /\ geo_http' = out.geo_http
        /\ quote_http' = out.quote_http
        /\ quote_call' = out.quote_call
        /\ event' = out.event
        /\ UNCHANGED <<api_key, api_secret, text, chunks, parsed, sign_in, sign_out>>

\* The user picks the other search method; the field of the method left is
\* no longer rendered and loses its content.
SelectSearchMethod ==
    \E m \in SearchMethods :
        /\ m # search_method
        /\ Run("select_method", m, "", "", service_type, NoResponse, "", NoResponse)

EnterSearchAddress ==
    \E q \in Queries :
        /\ search_method = "address"
        /\ q # search_address
        /\ Run("enter_address", search_method, q, manual_coords, service_type,
               NoResponse, "", NoResponse)

ClickSearch ==
    \E resp \in GeoResponses :
        /\ search_method = "address"
        /\ search_button_rendered(search_address)
        /\ Run("click_search", search_method, search_address, manual_coords,
               service_type, resp, "", NoResponse)

EnterManualCoords ==
    \E t \in ManualInputs :
        /\ search_method = "manual"
        /\ t # manual_coords
        /\ Run("enter_coords", search_method, search_address, t, service_type,
               NoResponse, "", NoResponse)

SelectServiceType ==
    \E s \in ChosenTypes :
        /\ selected_location.present
        /\ s # service_type
        /\ Run("select_service", search_method, search_address, manual_coords, s,
               NoResponse, "", NoResponse)

ClickQuote ==
    \E ts \in Timestamps, resp \in QuoteResponses :
        /\ selected_location.present
        /\ Run("click_quote", search_method, search_address, manual_coords,
               service_type, NoResponse, ts, resp)

Init ==
    /\ api_key \in ApiKeys
    /\ api_secret \in ApiSecrets
    /\ search_method = "address"
    /\ search_address = ""
    /\ manual_coords = ""
    /\ service_type = "MOTORCYCLE"
    /\ selected_location = NotInSession
    /\ event = [kind |-> "start", geo |-> NoResponse, quote |-> NoResponse]
    /\ shown = [search |-> "none", quote |-> QuoteShown("no_destination", FALSE)]
    /\ uncaught = FALSE
    /\ geo_http = <<>>
    /\ quote_http = <<>>
    /\ quote_call = NoCall
    /\ text = ""
    /\ chunks = 0
    /\ parsed = NoCoords
    /\ sign_in = NoSignIn
    /\ sign_out = NoSignOut

Next ==
    \/ SelectSearchMethod
    \/ EnterSearchAddress
    \/ ClickSearch
    \/ EnterManualCoords
    \/ SelectServiceType
    \/ ClickQuote

Spec == Init /\ [][Next]_vars

\* ------------------------------------------------------------------ parse_coords_from_text on bounded texts

\* The pieces the texts of SpecParse are made of.
Chunks == {"1.5", "0.25", "7", ".", ",", "-", " ", "@"}

UiIdle ==
    /\ api_key = KEY_PLACEHOLDER
    /\ api_secret = SECRET_PLACEHOLDER
    /\ search_method = "address"
    /\ search_address = ""
    /\ manual_coords = ""
    /\ service_type = "MOTORCYCLE"
    /\ selected_location = NotInSession
    /\ event = [kind |-> "start", geo |-> NoResponse, quote |-> NoResponse]
    /\ shown = [search |-> "none", quote |-> QuoteShown("no_destination", FALSE)]
    /\ uncaught = FALSE
    /\ geo_http = <<>>
    /\ quote_http = <<>>
    /\ quote_call = NoCall

InitParse ==
    /\ UiIdle
    /\ text = ""
    /\ chunks = 0
    /\ parsed = parse_coords_from_text("")
    /\ sign_in = NoSignIn
    /\ sign_out = NoSignOut

\* The text grows by one chunk and is parsed.
ParseText ==
    \E c \in Chunks :
        /\ chunks < MaxChunks
        /\ chunks' = chunks + 1
        /\ text' = text \o c
        /\ parsed' = parse_coords_from_text(text \o c)
        /\ UNCHANGED <<uiVars, sign_in, sign_out>>

NextParse == ParseText

SpecParse == InitParse /\ [][NextParse]_vars

\* ------------------------------------------------------------------ _build_signature on pairs of bodies

QuotePayload ==
    PyDict(<<KV("serviceType", PyStr("VAN")),
             KV("stops", Stops(Location(Float(FALSE, 1375, 2), Float(FALSE, 1005, 1),
                                        "Siam")))>>)

SignBodies ==
    {PyNone, PyDict(<<>>), PyList(<<>>), PyStr(""), PyStr("a"), PyList(<<PyStr("a")>>),
     PyDict(<<KV("a", PyStr("1"))>>), PyDict(<<KV("a", PyStr("2"))>>),
     PyDict(<<KV("a", PyStr("1")), KV("b", PyNone)>>),
     PyDict(<<KV("b", PyNone), KV("a", PyStr("1"))>>),
     QuotePayload}

QuotationUrl == LALAMOVE_BASE_URL \o "/v3/quotations"

InitSign ==
    /\ UiIdle
    /\ text = ""
    /\ chunks = 0
    /\ parsed = NoCoords
    /\ sign_in \in [secret : {"sk_test_1", "sk_test_2"}, method : {"POST", "post"},
                    ts : Timestamps, body : SignBodies \X SignBodies]
    /\ sign_out = NoSignOut

\* One call of _build_signature, with the k-th body.
BuildSignature ==
    \E k \in 1..2 :
        /\ ~sign_out.done[k]
        /\ sign_out' = [done |-> [sign_out.done EXCEPT ![k] = TRUE],
                        sig |-> [sign_out.sig EXCEPT ![k] =
                                    _build_signature(sign_in.secret, sign_in.method,
                                                     QuotationUrl, sign_in.body[k],
                                                     sign_in.ts)]]
        /\ UNCHANGED <<uiVars, text, chunks, parsed, sign_in>>

NextSign == BuildSignature

SpecSign == InitSign /\ [][NextSign]_vars

\* ------------------------------------------------------------------ claims

Is2xx(status) == 200 <= status /\ status <= 299

QuoteAnswered == event.kind = "click_quote" /\ event.quote.kind = "http"

\* C1: whenever the quotation endpoint answers with a status outside 200-299,
\* whatever the body, lalamove_request raises, and the error carries the status
\* code and the response body.
C1_NonOkRaises ==
    (QuoteAnswered /\ ~Is2xx(event.quote.status)) =>
        /\ quote_call.kind = "raise"
        /\ quote_call.err.has_status
        /\ quote_call.err.status = event.quote.status
        /\ quote_call.err.body = event.quote.body

BothSigned == sign_out.done[1] /\ sign_out.done[2]

\* C2 as stated: for one secret, timestamp, method and path, two calls return
\* the same signature exactly when their bodies are the same, None and empty
\* bodies included.
C2_SignatureFollowsBody ==
    BothSigned => ((sign_out.sig[1] = sign_out.sig[2]) <=> (sign_in.body[1] = sign_in.body[2]))

CompactJson(body) == dumps(body, ",", ":")

\* C2 as amended: two calls return the same signature exactly when both bodies
\* are falsy (None, {}, [], "") or both are truthy with the same compact JSON
\* text; in particular identical bodies give identical signatures.
C2_SignatureFollowsPayload ==
    BothSigned =>
        /\ (sign_out.sig[1] = sign_out.sig[2]) <=>
              \/ ~PyTruthy(sign_in.body[1]) /\ ~PyTruthy(sign_in.body[2])
              \/ /\ PyTruthy(sign_in.body[1]) /\ PyTruthy(sign_in.body[2])
                 /\ CompactJson(sign_in.body[1]) = CompactJson(sign_in.body[2])
        /\ (sign_in.body[1] = sign_in.body[2]) => (sign_out.sig[1] = sign_out.sig[2])

\* C2 witness: both calls were made, with two different truthy bodies and
\* different signatures.
C2_Witness ==
    /\ BothSigned
    /\ sign_in.body[1] = PyDict(<<KV("a", PyStr("1"))>>)
    /\ sign_in.body[2] = PyDict(<<KV("a", PyStr("2"))>>)
    /\ sign_out.sig[1] # sign_out.sig[2]

\* C3: the stored destination never holds a latitude outside [-90, 90] or a
\* longitude outside [-180, 180].
C3_StoredInRange ==
    selected_location.present =>
        /\ InRange(selected_location.lat, -90, 90)
        /\ InRange(selected_location.lng, -180, 180)

\* the geocoding answer is a failure: no answer, a status outside 200-299, a
\* body that is no JSON array of well-formed items, or an empty array
GeoFailed(resp) ==
    \/ resp.kind = "exception"
    \/ ~Is2xx(resp.status)
    \/ resp.body.shape # "list"
    \/ resp.body.items = <<>>
    \/ \E i \in 1..Len(resp.body.items) : ItemRaises(resp.body.items[i])

\* the quotation answer is a failure: no answer, a status outside 200-299, a
\* body that is not JSON, or JSON without priceBreakdown
QuoteFailed(resp) ==
    \/ resp.kind = "exception"
    \/ ~Is2xx(resp.status)
    \/ resp.body.shape # "json"
    \/ resp.body.data # "quotation"

\* C4: every failed search or quotation ends in a run that finished without an
\* uncaught exception and shows an error message, and a run sends a request only
\* for the click it handles, at most once.
C4_FailuresShown ==
    /\ ~uncaught
    /\ Len(geo_http) <= 1 /\ Len(quote_http) <= 1
    /\ (event.kind # "click_search") => (geo_http = <<>>)
    /\ (event.kind # "click_quote") => (quote_http = <<>>)
    /\ (event.kind = "click_search" /\ GeoFailed(event.geo)) => (shown.search = "error")
    /\ (event.kind = "click_quote" /\ event.quote.kind # "none" /\ QuoteFailed(event.quote))
          => (shown.quote.msg \in {"quote_failed", "exception"})
    /\ (search_method = "manual" /\ manual_coords # ""
            /\ ~parse_coords_from_text(manual_coords).found)
          => (shown.search = "coords_error")

\* the last run was a search: a click on the search button, or a run of the
\* manual mode on a text just entered
SearchRan ==
    \/ event.kind = "click_search"
    \/ event.kind = "enter_coords" /\ manual_coords # ""

\* the stored destination is the one the search of the last run resolved
FromThisSearch ==
    IF event.kind = "click_search"
    THEN /\ event.geo.kind = "http"
         /\ event.geo.body.shape = "list"
         /\ event.geo.body.items # <<>>
         /\ LET first == event.geo.body.items[1]
            IN  /\ ~ItemRaises(first)
                /\ selected_location =
                       Location(float(first.lat), float(first.lon), first.display_name)
    ELSE LET p == parse_coords_from_text(manual_coords)
         IN  /\ p.found
             /\ selected_location = Location(p.lat, p.lng, CoordsLabel(p.lat, p.lng))

\* C5 as stated: after any search, what is stored comes from that search; no
\* destination of an earlier search is left for the quotation step.
C5_ReplacedByEverySearch ==
    (SearchRan /\ selected_location.present) => FromThisSearch

SearchSucceeded == SearchRan /\ shown.search \in {"results", "coords_ok"}

\* C5 as amended: after a search that resolved a destination, the stored
\* latitude, longitude and address all come from that search; a search that
\* resolved none leaves the stored destination as it was.
C5_ReplacedBySuccessfulSearch ==
    /\ [](SearchSucceeded => FromThisSearch)
    /\ [][(SearchRan' /\ ~SearchSucceeded') => (selected_location' = selected_location)]_vars

\* C5 witness: an address search answered with two places has run, and the
\* stored destination is the first of them, in all three fields.
C5_Witness ==
    /\ event.kind = "click_search"
    /\ shown.search = "results"
    /\ event.geo.body.items = <<MbkItem, SiamItem>>
    /\ selected_location =
           Location(Float(FALSE, 13744, 3), Float(FALSE, 10053, 2), "MBK Center, Bangkok")

\* C6: no geocoding request is sent for a query of fewer than 3 characters, and
\* such a query shows no results and stores no destination.
C6_ShortQueryNoRequest ==
    /\ \A i \in 1..Len(geo_http) : Len(geo_http[i].q) >= 3
    /\ (search_method = "address" /\ Len(search_address) < 3) =>
          /\ geo_http = <<>>
          /\ shown.search = "none"

\* C6 witness: the user entered a query of 2 characters, the script ran, and
\* nothing was sent.
C6_Witness ==
    /\ event.kind = "enter_address"
    /\ search_address = "ab"
    /\ geo_http = <<>>
    /\ shown.search = "none"

\* every character of s is a digit, and there is one
AllDigits(s) == s # "" /\ \A i \in 1..Len(s) : IsDigit(Ch(s, i))

AllSpaces(s) == \A i \in 1..Len(s) : IsSpace(Ch(s, i))

\* s is a decimal number: an optional minus sign, digits, a point, digits
IsNumber(s) ==
    LET b == IF s # "" /\ Ch(s, 1) = "-" THEN SubSeq(s, 2, Len(s)) ELSE s
    IN  \E k \in 2..(Len(b) - 1) :
            /\ Ch(b, k) = "."
            /\ AllDigits(SubSeq(b, 1, k - 1))
            /\ AllDigits(SubSeq(b, k + 1, Len(b)))

\* mid is a comma with nothing but spaces around it
IsSeparator(mid) ==
    \E c \in 1..Len(mid) :
        /\ Ch(mid, c) = ","
        /\ AllSpaces(SubSeq(mid, 1, c - 1))
        /\ AllSpaces(SubSeq(mid, c + 1, Len(mid)))

\* the ways to read s as a coordinate pair: a number, a separator, a number;
\* each way names the two numbers
PairReadings(s) ==
    LET n == Len(s)
        cuts == {ij \in (1..n) \X (1..n) :
                    /\ ij[1] + 1 < ij[2]
                    /\ IsDigit(Ch(s, ij[1]))
                    /\ IsSeparator(SubSeq(s, ij[1] + 1, ij[2] - 1))
                    /\ IsNumber(SubSeq(s, 1, ij[1]))
                    /\ IsNumber(SubSeq(s, ij[2], n))}
    IN  {[a |-> SubSeq(s, 1, ij[1]), b |-> SubSeq(s, ij[2], n)] : ij \in cuts}

\* the pieces text[i..j] of the text that read as a coordinate pair
PairsIn(s) ==
    {ij \in (1..Len(s)) \X (1..Len(s)) :
        /\ ij[1] < ij[2]
        /\ IsDigit(Ch(s, ij[1])) \/ Ch(s, ij[1]) = "-"
        /\ IsDigit(Ch(s, ij[2]))
        /\ PairReadings(SubSeq(s, ij[1], ij[2])) # {}}

\* C7: if the text holds a coordinate pair "a,b" (spaces allowed around the
\* comma, any text around the pair), the parser returns the two numbers of the
\* pair that starts first, taken to their full length; it returns (None, None)
\* for the empty text and for a text that holds no pair.
C7_FirstPairParsed ==
    LET pairs == PairsIn(text)
    IN  IF pairs = {}
        THEN parsed = NoCoords
        ELSE LET i == CHOOSE i \in {ij[1] : ij \in pairs} :
                          \A ij \in pairs : i <= ij[1]
                 j == CHOOSE j \in {ij[2] : ij \in {p \in pairs : p[1] = i}} :
                          \A ij \in pairs : ij[1] = i => ij[2] <= j
                 r == CHOOSE r \in PairReadings(SubSeq(text, i, j)) : TRUE
             IN  parsed = [found |-> TRUE, lat |-> float(r.a), lng |-> float(r.b)]

\* C7 witness: a text was parsed in which the
\* pattern matches at two positions, and the pair returned is the first one.
C7_Witness ==
    /\ text = "71.5,0.25"
    /\ parsed = [found |-> TRUE, lat |-> Float(FALSE, 715, 1), lng |-> Float(FALSE, 25, 2)]

\* C8: in every quotation request with a non-empty body, the signature in the
\* Authorization header is the signature of the header's timestamp, the method,
\* the path and the body text that is transmitted.
C8_SignedBodyIsSentBody ==
    \A i \in 1..Len(quote_http) :
        LET r == quote_http[i]
        IN  PyTruthy(r.body) =>
                /\ r.data.sent
                /\ r.headers.Authorization.sig =
                       hmac_sha256(api_secret,
                                   r.headers.Authorization.ts \o "\r\n" \o upper(r.method)
                                   \o "\r\n" \o urlparse_path(r.url) \o "\r\n\r\n"
                                   \o r.data.text)

\* C9: in manual mode the handler stores a destination exactly when the parser
\* found a pair: a pair found is stored as it is and confirmed, zero
\* coordinates included; no pair found shows the error message.
C9_StoredIffParsed ==
    (search_method = "manual" /\ manual_coords # "" /\ event.kind # "start") =>
        LET p == parse_coords_from_text(manual_coords)
        IN  IF p.found
            THEN /\ selected_location.present
                 /\ selected_location.lat = p.lat
                 /\ selected_location.lng = p.lng
                 /\ shown.search = "coords_ok"
            ELSE shown.search = "coords_error"

\* the destination stop of a quotation request: its latitude and longitude
DestinationOf(request) ==
    LET stops == request.body.items[2].val.items
        loc   == stops[2].items[1].val.items
    IN  <<loc[1].val.s, loc[2].val.s>>

\* C10: a run sends a quotation request only if a destination was stored when
\* it started and neither the key nor the secret is the placeholder; it is the
\* run of a click on the quotation button, it sends one request, and the request
\* is for the stored destination.
C10_QuoteRequestGuarded ==
    [][ (quote_http' # <<>>) =>
            /\ selected_location.present
            /\ api_key # KEY_PLACEHOLDER
            /\ api_secret # SECRET_PLACEHOLDER
            /\ event'.kind = "click_quote"
            /\ Len(quote_http') = 1
            /\ DestinationOf(quote_http'[1]) =
                   <<str(selected_location.lat), str(selected_location.lng)>>
      ]_vars

\* C10 witness: a click on the quotation button has sent a request.
C10_Witness ==
    /\ event.kind = "click_quote"
    /\ Len(quote_http) = 1
    /\ selected_location.present
    /\ quote_http[1].headers.Authorization.key = "pk_test_1"

====
